---- MODULE Spec2Model ----
(***************************************************************************)
(* Model of the weather plugin in src/main.py (class WeatherPlugin).       *)
(*                                                                         *)
(* Every command handler is an async generator: it runs up to its next     *)
(* await, is suspended while the outbound call is in flight, and resumes   *)
(* when the call returns.  One action models one such uninterrupted run.   *)
(* Python and JSON values are tagged records [t |-> ..., v |-> ...] so     *)
(* that the dynamic type errors of the source can be computed.             *)
(* The Chinese string literals of the source are rendered in ASCII.        *)
(***************************************************************************)
EXTENDS Integers, Sequences, FiniteSets, TLC

(***************************************************************************)
(* Bounds of the model.                                                    *)
(***************************************************************************)
NumHandlers == 2
MaxList == 5

(***************************************************************************)
(* Python / JSON values.                                                   *)
(***************************************************************************)
None == [t |-> "null"]
Absent == [t |-> "absent"]
BadJson == [t |-> "badjson"]
JNum(n) == [t |-> "num", v |-> n]
JStr(s) == [t |-> "str", v |-> s]
JList(s) == [t |-> "list", v |-> s]
JObj(f) == [t |-> "obj", v |-> f]
EmptyObj == JObj(<<>>)
Raise(e) == [t |-> "raise", e |-> e]
IsRaise(x) == x.t = "raise"

\* key k with value v, or nothing when the key is absent from the object
Opt(k, v) == IF v = Absent THEN <<>> ELSE k :> v

\* Python truth value of a decoded JSON value
Truthy(x) ==
  CASE x.t = "null" -> FALSE
    [] x.t = "num" -> x.v # 0
    [] x.t = "str" -> x.v # ""
    [] x.t = "list" -> Len(x.v) > 0
    [] x.t = "obj" -> DOMAIN x.v # {}
    [] OTHER -> TRUE

\* x.get(k, d): only a dict has the method
Get(x, k, d) ==
  CASE x.t = "obj" -> IF k \in DOMAIN x.v THEN x.v[k] ELSE d
    [] x.t = "raise" -> x
    [] OTHER -> Raise("AttributeError")

\* x[0]
Index0(x) ==
  CASE x.t = "list" -> IF Len(x.v) > 0 THEN x.v[1] ELSE Raise("IndexError")
    [] x.t = "obj" -> Raise("KeyError")
    [] x.t = "str" -> IF x.v = "" THEN Raise("IndexError") ELSE JStr(SubSeq(x.v, 1, 1))
    [] x.t = "raise" -> x
    [] OTHER -> Raise("TypeError")

\* x[k] for a string key k
Subscript(x, k) ==
  CASE x.t = "obj" -> IF k \in DOMAIN x.v THEN x.v[k] ELSE Raise("KeyError")
    [] x.t = "raise" -> x
    [] OTHER -> Raise("TypeError")

\* len(x)
PyLen(x) ==
  CASE x.t = "raise" -> x
    [] x.t = "list" -> JNum(Len(x.v))
    [] x.t = "str" -> JNum(Len(x.v))
    [] x.t = "obj" -> JNum(Cardinality(DOMAIN x.v))
    [] OTHER -> Raise("TypeError")

\* x[1:]
SliceFrom1(x) ==
  CASE x.t = "raise" -> x
    [] x.t = "list" -> JList(IF Len(x.v) = 0 THEN <<>> ELSE Tail(x.v))
    [] x.t = "str" -> JStr(IF x.v = "" THEN "" ELSE Tail(x.v))
    [] OTHER -> Raise("TypeError")

\* the first exception among the values of a sequence of evaluations, in
\* evaluation order; ok when none of them raised
Checked(parts, ok) ==
  IF \E i \in 1..Len(parts) : IsRaise(parts[i])
  THEN parts[CHOOSE i \in 1..Len(parts) :
               IsRaise(parts[i]) /\ \A j \in 1..(i - 1) : ~IsRaise(parts[j])]
  ELSE ok

\* the elements a for loop over x visits
Items(x) ==
  IF x.t = "str" THEN [i \in 1..Len(x.v) |-> JStr(SubSeq(x.v, i, i))] ELSE x.v

(***************************************************************************)
(* String literals of the source (ASCII renderings).                       *)
(***************************************************************************)
DESC_PLACEHOLDER == "no description"
MSG_NO_KEY_COMMAND == "OpenWeatherMap API Key is not configured, cannot query weather. Configure it in the admin panel and retry."
MSG_NO_KEY_TOOL == "Sorry, cannot query weather (API Key missing)"
MSG_ALERTS_UNSUPPORTED == "Sorry, the 2.5 API in use does not support weather alerts."
MSG_HELP == "=== weather plugin commands === current / forecast / alerts / help"
WEEKDAYS == <<"Mon", "Tue", "Wed", "Thu", "Fri", "Sat", "Sun">>

(***************************************************************************)
(* format_day: UTC calendar date and weekday of a unix timestamp.          *)
(***************************************************************************)
Digit(d) == CASE d = 0 -> "0" [] d = 1 -> "1" [] d = 2 -> "2" [] d = 3 -> "3"
              [] d = 4 -> "4" [] d = 5 -> "5" [] d = 6 -> "6" [] d = 7 -> "7"
              [] d = 8 -> "8" [] d = 9 -> "9"

Pad2(n) == Digit((n \div 10) % 10) \o Digit(n % 10)

Pad4(n) == Digit((n \div 1000) % 10) \o Digit((n \div 100) % 10) \o Pad2(n % 100)

\* proleptic Gregorian date <<y, m, d>> of a day number counted from
\* 1970-01-01, from the 400-year era, the day of the era (doe), the year of
\* the era (yoe), the day of the year counted from 1 March (doy) and the
\* month counted from March (mp)
YearOfEra(doe) == (doe - doe \div 1460 + doe \div 36524 - doe \div 146096) \div 365

DayOfYear(doe, yoe) == doe - (365 * yoe + yoe \div 4 - yoe \div 100)

CivilDate(era, yoe, doy, mp) ==
  <<yoe + era * 400 + (IF mp < 10 THEN 0 ELSE 1),
    IF mp < 10 THEN mp + 3 ELSE mp - 9,
    doy - (153 * mp + 2) \div 5 + 1>>

CivilFromDoy(era, yoe, doy) == CivilDate(era, yoe, doy, (5 * doy + 2) \div 153)

CivilFromYoe(era, doe, yoe) == CivilFromDoy(era, yoe, DayOfYear(doe, yoe))

CivilFromDays(days) ==
  CivilFromYoe((days + 719468) \div 146097, (days + 719468) % 146097,
               YearOfEra((days + 719468) % 146097))

\* strftime("%Y-%m-%d") and the weekday name (timestamps of the model fit in
\* 32 bits, where utcfromtimestamp accepts every value)
DayStrings(days, ymd) ==
  [t |-> "tuple",
   date_str |-> Pad4(ymd[1]) \o "-" \o Pad2(ymd[2]) \o "-" \o Pad2(ymd[3]),
   weekday_str |-> WEEKDAYS[((days + 3) % 7) + 1]]

format_day(unix_ts) ==
  CASE unix_ts.t = "raise" -> unix_ts
    [] unix_ts.t = "num" -> DayStrings(unix_ts.v \div 86400, CivilFromDays(unix_ts.v \div 86400))
    [] OTHER -> Raise("TypeError")

(***************************************************************************)
(* Outcomes of an outbound HTTP GET: an exception of session.get (timeout, *)
(* network error) or a response with a status and a body.  resp.json()     *)
(* raises on a body that is not JSON.                                      *)
(***************************************************************************)
Exc(e) == [k |-> "exc", e |-> e]
Http(s, b) == [k |-> "http", status |-> s, body |-> b]
CNT == 4

json(resp) == IF resp.body = BadJson THEN Raise("JSONDecodeError") ELSE resp.body

\* return (lat, lon)
coords_tuple(lat, lon) == Checked(<<lat, lon>>, [t |-> "tuple", lat |-> lat, lon |-> lon])

\* get_city_coords, the 200 branch
coords_of(data) ==
  IF IsRaise(data) THEN data
  ELSE IF ~Truthy(data) THEN None
  ELSE coords_tuple(Subscript(Index0(data), "lat"), Subscript(Index0(data), "lon"))

\* get_city_coords, body of the try block
get_city_coords_try(resp) ==
  IF resp.k = "exc" THEN Raise(resp.e)
  ELSE IF resp.status = 200 THEN coords_of(json(resp))
  ELSE None

\* an except clause that catches only the network errors of the client
except_ClientError(r) == IF IsRaise(r) /\ r.e = "ClientError" THEN None ELSE r

\* try ... except Exception: return None
except_Exception(r) == IF IsRaise(r) THEN None ELSE r

\* a resolver that answers a fallback position when the city is not found
get_city_coords_fallback(resp) ==
  IF except_Exception(get_city_coords_try(resp)) = None
  THEN [t |-> "tuple", lat |-> JNum(0), lon |-> JNum(0)]
  ELSE get_city_coords_try(resp)

\* get_city_coords: (lat, lon), or None on every failure
get_city_coords(resp) == except_Exception(get_city_coords_try(resp))

\* the returned dict of get_current_weather_by_city
current_record(city, desc, temp, feels_like, humidity, wind_speed) ==
  Checked(<<desc, temp, feels_like, humidity, wind_speed>>,
          [t |-> "dict", city |-> city, desc |-> desc, temp |-> temp,
           feels_like |-> feels_like, humidity |-> humidity,
           wind_speed |-> wind_speed])

\* the field extraction of get_current_weather_by_city
current_fields(city, main_part, weather_arr, wind_part) ==
  current_record(city,
                 Get(Index0(weather_arr), "description", JStr(DESC_PLACEHOLDER)),
                 Get(main_part, "temp", None),
                 Get(main_part, "feels_like", None),
                 Get(main_part, "humidity", None),
                 Get(wind_part, "speed", JNum(0)))

current_of(city, data) ==
  current_fields(city, Get(data, "main", EmptyObj),
                 Get(data, "weather", JList(<<EmptyObj>>)),
                 Get(data, "wind", EmptyObj))

\* get_current_weather_by_city, body of the try block
get_current_weather_try(city, resp) ==
  IF resp.k = "exc" THEN Raise(resp.e)
  ELSE IF resp.status = 200 THEN current_of(city, json(resp))
  ELSE None

\* get_current_weather_by_city after the coordinates are known
get_current_weather_response(city, resp) ==
  except_Exception(get_current_weather_try(city, resp))

\* the dict appended to result
day_record(fd, desc, temp_day, temp_night, temp_min, temp_max, humidity, wind_speed) ==
  Checked(<<desc, temp_day, temp_night, temp_min, temp_max, humidity, wind_speed, fd>>,
          [t |-> "dict", date_str |-> fd.date_str, weekday_str |-> fd.weekday_str,
           desc |-> desc, temp_day |-> temp_day, temp_night |-> temp_night,
           temp_min |-> temp_min, temp_max |-> temp_max, humidity |-> humidity,
           wind_speed |-> wind_speed])

day_fields(day_data, dt, weather_info, temp_info) ==
  day_record(format_day(dt),
             Get(Index0(weather_info), "description", JStr(DESC_PLACEHOLDER)),
             Get(temp_info, "day", None), Get(temp_info, "night", None),
             Get(temp_info, "min", None), Get(temp_info, "max", None),
             Get(day_data, "humidity", None), Get(day_data, "speed", JNum(0)))

\* one iteration of the loop of get_forecast_weather_by_city
forecast_day(day_data) ==
  day_fields(day_data, Get(day_data, "dt", JNum(0)),
             Get(day_data, "weather", JList(<<EmptyObj>>)),
             Get(day_data, "temp", EmptyObj))

\* the loop over slice_days
forecast_loop(items) ==
  Checked([i \in 1..Len(items) |-> forecast_day(items[i])],
          JList([i \in 1..Len(items) |-> forecast_day(items[i])]))

\* daily_list[1:]
slice_days(daily_list) ==
  IF IsRaise(SliceFrom1(daily_list)) THEN SliceFrom1(daily_list)
  ELSE forecast_loop(Items(SliceFrom1(daily_list)))

\* if not daily_list or len(daily_list) < 2: return None
enough_days(daily_list, n) ==
  IF IsRaise(daily_list) THEN daily_list
  ELSE IF ~Truthy(daily_list) THEN None
  ELSE IF IsRaise(n) THEN n
  ELSE IF n.v < 2 THEN None
  ELSE slice_days(daily_list)

forecast_of(daily_list) == enough_days(daily_list, PyLen(daily_list))

\* get_forecast_weather_by_city, body of the try block
get_forecast_weather_try(resp) ==
  IF resp.k = "exc" THEN Raise(resp.e)
  ELSE IF resp.status = 200 THEN forecast_of(Get(json(resp), "list", None))
  ELSE None

\* get_forecast_weather_by_city after the coordinates are known
get_forecast_weather_response(resp) == except_Exception(get_forecast_weather_try(resp))

(***************************************************************************)
(* State.  api_key and default_city are the attributes set by __init__;    *)
(* task[h] is one execution of a command handler: its position (pc), its   *)
(* locals (cmd, arg, city, coords, data), the replies it has yielded, the  *)
(* outbound calls it has issued (calls), those still in flight (pending)   *)
(* and the responses it has received (resps).                              *)
(***************************************************************************)
VARIABLES api_key, default_city, task

vars == <<api_key, default_city, task>>

Handlers == 1..NumHandlers

Commands == {"current", "forecast", "alerts", "help", "tool_current", "tool_forecast"}

CurrentCmds == {"current", "tool_current"}

ForecastCmds == {"forecast", "tool_forecast"}

IdleTask == [pc |-> "idle", cmd |-> "none", arg |-> None, city |-> "",
             coords |-> None, data |-> None, replies |-> <<>>, calls |-> <<>>,
             pending |-> {}, resps |-> <<>>]

plain_result(text) == [kind |-> "plain", text |-> text]

image_result(url) == [kind |-> "image", url |-> url]

\* the f-string of the failure reply of each handler
FailMsg(cmd, city) ==
  CASE cmd = "current" -> "Query [" \o city \o "] current weather failed, try again later."
    [] cmd = "forecast" -> "Query [" \o city \o "] forecast weather failed, try again later."
    [] OTHER -> "Query [" \o city \o "] weather failed, try again later."

\* a resolution that replaces only a missing argument, not an empty one
ResolveCity_NoneOnly(c) == IF c = None THEN default_city ELSE c.v

\* if not city: city = self.default_city
ResolveCity(c) == IF Truthy(c) THEN c.v ELSE default_city

GeoCall(city) == [ep |-> "geo", q |-> city, limit |-> 1, appid |-> api_key]

WeatherCall(coords) ==
  [ep |-> "weather", lat |-> coords.lat, lon |-> coords.lon, appid |-> api_key,
   units |-> "metric", lang |-> "zh_cn"]

ForecastCall(coords) ==
  [ep |-> "forecast", lat |-> coords.lat, lon |-> coords.lon, cnt |-> CNT,
   appid |-> api_key, units |-> "metric", lang |-> "zh_cn"]

\* the html_render call of render_current_weather
render_current_weather(data) ==
  [ep |-> "render", tmpl |-> "CURRENT_WEATHER_TEMPLATE", return_url |-> TRUE,
   data |-> [city |-> data.city, desc |-> data.desc, temp |-> data.temp,
             feels_like |-> data.feels_like, humidity |-> data.humidity,
             wind_speed |-> data.wind_speed]]

\* the html_render call of render_forecast_weather
render_forecast_weather(city, days_data) ==
  [ep |-> "render", tmpl |-> "FORECAST_TEMPLATE", return_url |-> TRUE,
   data |-> [city |-> city, days |-> days_data.v, total_days |-> Len(days_data.v)]]

\* the handler yields its reply and returns
Finish(h, t, reply) ==
  task' = [task EXCEPT ![h] = [t EXCEPT !.pc = "done",
                                        !.replies = Append(t.replies, reply)]]

\* the handler is suspended on an outbound call
Await(h, t, pc, call) ==
  task' = [task EXCEPT ![h] = [t EXCEPT !.pc = pc,
                                        !.calls = Append(t.calls, call),
                                        !.pending = t.pending \cup {call.ep}]]

\* an exception leaves the handler
Propagate(h, t) ==
  task' = [task EXCEPT ![h] = [t EXCEPT !.pc = "raised"]]

\* an opening that starts the geocoding and the weather request together
begin_lookup_parallel(h, t, no_key_msg) ==
  IF api_key = ""
  THEN Finish(h, t, plain_result(no_key_msg))
  ELSE task' = [task EXCEPT ![h] =
                  [t EXCEPT !.pc = "geo",
                            !.calls = <<GeoCall(t.city),
                                        WeatherCall([lat |-> JNum(0), lon |-> JNum(0)])>>,
                            !.pending = {"geo", "weather"}]]

\* an opening that goes to the network without looking at the credential
begin_lookup_unchecked(h, t, no_key_msg) == Await(h, t, "geo", GeoCall(t.city))

\* the common opening of the four lookup handlers: resolve the city, check
\* the credential, then enter get_*_weather_by_city and its geocoding call
begin_lookup(h, t, no_key_msg) ==
  IF api_key = ""
  THEN Finish(h, t, plain_result(no_key_msg))
  ELSE Await(h, t, "geo", GeoCall(t.city))

\* locals whose city is kept in an attribute shared by the handlers: a
\* command entering while another is in flight overwrites it for both
Entered_shared(h, cmd, c) ==
  [task[h] EXCEPT !.cmd = cmd, !.arg = c,
                  !.city = IF \E g \in Handlers \ {h} : task[g].pending # {}
                           THEN task[CHOOSE g \in Handlers \ {h} : task[g].pending # {}].city
                           ELSE ResolveCity(c)]

\* the locals of a handler once the city is resolved
Entered(h, cmd, c) == [task[h] EXCEPT !.cmd = cmd, !.arg = c, !.city = ResolveCity(c)]

weather_current(h, c) ==
  /\ task[h].pc = "idle"
  /\ begin_lookup(h, Entered(h, "current", c), MSG_NO_KEY_COMMAND)
  /\ UNCHANGED <<api_key, default_city>>

weather_forecast(h, c) ==
  /\ task[h].pc = "idle"
  /\ begin_lookup(h, Entered(h, "forecast", c), MSG_NO_KEY_COMMAND)
  /\ UNCHANGED <<api_key, default_city>>

get_current_weather_tool(h, c) ==
  /\ task[h].pc = "idle"
  /\ begin_lookup(h, Entered(h, "tool_current", c), MSG_NO_KEY_TOOL)
  /\ UNCHANGED <<api_key, default_city>>

get_forecast_weather_tool(h, c) ==
  /\ task[h].pc = "idle"
  /\ begin_lookup(h, Entered(h, "tool_forecast", c), MSG_NO_KEY_TOOL)
  /\ UNCHANGED <<api_key, default_city>>

\* an alerts command that goes through the lookup like the other commands
weather_alerts_lookup(h, c) ==
  /\ task[h].pc = "idle"
  /\ begin_lookup(h, Entered(h, "alerts", c), MSG_NO_KEY_COMMAND)
  /\ UNCHANGED <<api_key, default_city>>

weather_alerts(h, c) ==
  /\ task[h].pc = "idle"
  /\ Finish(h, [task[h] EXCEPT !.cmd = "alerts", !.arg = c],
            plain_result(MSG_ALERTS_UNSUPPORTED))
  /\ UNCHANGED <<api_key, default_city>>

weather_help(h) ==
  /\ task[h].pc = "idle"
  /\ Finish(h, [task[h] EXCEPT !.cmd = "help"], plain_result(MSG_HELP))
  /\ UNCHANGED <<api_key, default_city>>

\* the response to a call arrives: it is no longer in flight
Received(t, ep, resp) ==
  [t EXCEPT !.pending = t.pending \ {ep}, !.resps = Append(t.resps, resp)]

\* a geocoding step that asks once more when the first answer is a failure
geocoding_returns_retry(h, resp) ==
  /\ task[h].pc = "geo"
  /\ IF get_city_coords(resp) = None
     THEN IF Len(task[h].calls) < 2
          THEN Await(h, Received(task[h], "geo", resp), "geo", GeoCall(task[h].city))
          ELSE Finish(h, Received(task[h], "geo", resp),
                      plain_result(FailMsg(task[h].cmd, task[h].city)))
     ELSE Await(h, [Received(task[h], "geo", resp) EXCEPT !.coords = get_city_coords(resp)],
                "weather",
                IF task[h].cmd \in CurrentCmds THEN WeatherCall(get_city_coords(resp))
                                                ELSE ForecastCall(get_city_coords(resp)))
  /\ UNCHANGED <<api_key, default_city>>

\* the geocoding call returns into get_*_weather_by_city
geocoding_returns(h, resp) ==
  LET coords == get_city_coords(resp)
      t == Received(task[h], "geo", resp)
  IN /\ task[h].pc = "geo"
     /\ IF IsRaise(coords) THEN Propagate(h, t)
        ELSE IF coords = None
        THEN Finish(h, t, plain_result(FailMsg(t.cmd, t.city)))
        ELSE Await(h, [t EXCEPT !.coords = coords], "weather",
                   IF t.cmd \in CurrentCmds THEN WeatherCall(coords)
                                            ELSE ForecastCall(coords))
     /\ UNCHANGED <<api_key, default_city>>

\* the current-weather call returns; the handler replies or renders
weather_returns(h, resp) ==
  LET data == get_current_weather_response(task[h].city, resp)
      t == Received(task[h], "weather", resp)
  IN /\ task[h].pc = "weather"
     /\ task[h].cmd \in CurrentCmds
     /\ IF IsRaise(data) THEN Propagate(h, t)
        ELSE IF data = None
        THEN Finish(h, t, plain_result(FailMsg(t.cmd, t.city)))
        ELSE Await(h, [t EXCEPT !.data = data], "render", render_current_weather(data))
     /\ UNCHANGED <<api_key, default_city>>

\* the forecast call returns; the handler replies or renders
forecast_returns(h, resp) ==
  LET data_list == get_forecast_weather_response(resp)
      t == Received(task[h], "forecast", resp)
  IN /\ task[h].pc = "weather"
     /\ task[h].cmd \in ForecastCmds
     /\ IF IsRaise(data_list) THEN Propagate(h, t)
        ELSE IF data_list = None
        THEN Finish(h, t, plain_result(FailMsg(t.cmd, t.city)))
        ELSE Await(h, [t EXCEPT !.data = data_list], "render",
                   render_forecast_weather(t.city, data_list))
     /\ UNCHANGED <<api_key, default_city>>

\* html_render returns the image URL, or raises
render_returns(h, out) ==
  LET t == Received(task[h], "render", out)
  IN /\ task[h].pc = "render"
     /\ IF out.k = "exc" THEN Propagate(h, t)
        ELSE Finish(h, t, image_result(out.url))
     /\ UNCHANGED <<api_key, default_city>>

(***************************************************************************)
(* Inputs: city arguments, configurations, and what the upstream services  *)
(* may answer.                                                             *)
(***************************************************************************)
CityArgs == {None, JStr(""), JStr("Shanghai"), JStr("Paris")}

ErrorStatuses == {401, 404, 500}

Failures == {Exc("TimeoutError"), Exc("ClientError")}
              \cup {Http(s, JObj("cod" :> JNum(s))) : s \in ErrorStatuses}

Place(lat, lon) == JObj("name" :> JStr("x") @@ "lat" :> JNum(lat) @@ "lon" :> JNum(lon))

GeoBodies ==
  {BadJson, None, JNum(0), JNum(7), JStr(""), JStr("ab"), EmptyObj,
   JObj("cod" :> JNum(401)), JList(<<>>), JList(<<EmptyObj>>), JList(<<JNum(5)>>),
   JList(<<JStr("ab")>>), JList(<<JObj("lat" :> JNum(31))>>),
   JList(<<Place(31, 121)>>), JList(<<Place(48, 2), Place(33, -95)>>)}

GeoResponses == Failures \cup {Http(200, b) : b \in GeoBodies}

MainVals ==
  {Absent, None, JNum(5), EmptyObj, JObj("temp" :> JNum(22)),
   JObj("temp" :> JNum(22) @@ "feels_like" :> JNum(21) @@ "humidity" :> JNum(60))}

WeatherVals ==
  {Absent, None, EmptyObj, JStr("ab"), JList(<<>>), JList(<<EmptyObj>>),
   JList(<<JNum(1)>>), JList(<<JObj("description" :> JStr("clear"))>>)}

WindVals == {Absent, JNum(7), EmptyObj, JObj("speed" :> JNum(3))}

CurrentBodies ==
  {BadJson, None, JList(<<>>), JStr("ab")}
    \cup {JObj(Opt("main", m) @@ Opt("weather", w) @@ Opt("wind", d)) :
            m \in MainVals, w \in WeatherVals, d \in WindVals}

CurrentResponses == Failures \cup {Http(200, b) : b \in CurrentBodies}

\* the entry at position i of an upstream daily list, by kind; the days
\* follow one another from 2026-11-01 00:00 UTC
DayDt(i) == 1793491200 + (i - 1) * 86400

Day(kind, i) ==
  CASE kind = "full" ->
         JObj("dt" :> JNum(DayDt(i))
              @@ "weather" :> JList(<<JObj("description" :> JStr("rain"))>>)
              @@ "temp" :> JObj("day" :> JNum(20 + i) @@ "night" :> JNum(10 + i)
                                @@ "min" :> JNum(9 + i) @@ "max" :> JNum(21 + i))
              @@ "humidity" :> JNum(50 + i) @@ "speed" :> JNum(i))
    [] kind = "empty" -> EmptyObj
    [] kind = "noweather" -> JObj("dt" :> JNum(DayDt(i))
                                  @@ "weather" :> JList(<<>>))
    [] kind = "baddt" -> JObj("dt" :> JStr("today"))
    [] OTHER -> JNum(3)

DailyLists(kinds) ==
  UNION {{JList([i \in 1..n |-> Day(ks[i], i)]) : ks \in [1..n -> kinds]} : n \in 0..MaxList}

ForecastBodies ==
  {BadJson, None, JList(<<>>), EmptyObj, JObj("list" :> None), JObj("list" :> JNum(5)),
   JObj("list" :> JStr("ab")), JObj("list" :> JObj("a" :> JNum(1) @@ "b" :> JNum(2))),
   JObj("list" :> JList(<<Day("full", 1), Day("noweather", 2)>>)),
   JObj("list" :> JList(<<Day("full", 1), Day("baddt", 2)>>))}
    \cup {JObj("cnt" :> JNum(Len(l.v)) @@ "list" :> l) : l \in DailyLists({"full", "empty", "num"})}

ForecastResponses == Failures \cup {Http(200, b) : b \in ForecastBodies}

RenderUrl(u) == [k |-> "url", url |-> u]

RenderOutcomes == {Exc("RenderError"), RenderUrl("https://img/1.png"), RenderUrl("https://img/2.png")}

(***************************************************************************)
(* Spec: NumHandlers commands run concurrently; every response is drawn    *)
(* from a few representative outcomes.                                     *)
(***************************************************************************)
FewArgs == {None, JStr("Shanghai")}

FewGeo == {Exc("TimeoutError"), Http(200, JList(<<>>)), Http(200, JList(<<Place(31, 121)>>))}

FewCurrent ==
  {Http(500, JObj("cod" :> JNum(500))),
   Http(200, JObj("main" :> JObj("temp" :> JNum(22)) @@ "wind" :> JObj("speed" :> JNum(3))))}

FewForecast ==
  {Http(200, JObj("list" :> JList(<<Day("full", 1)>>))),
   Http(200, JObj("list" :> JList([i \in 1..CNT |-> Day("full", i)])))}

FewRender == {Exc("RenderError"), RenderUrl("https://img/1.png")}

Step(h, Args, Geo, Cur, Fore, Rend) ==
  \/ \E c \in Args : weather_current(h, c)
  \/ \E c \in Args : weather_forecast(h, c)
  \/ \E c \in Args : weather_alerts(h, c)
  \/ weather_help(h)
  \/ \E c \in Args : get_current_weather_tool(h, c)
  \/ \E c \in Args : get_forecast_weather_tool(h, c)
  \/ \E r \in Geo : geocoding_returns(h, r)
  \/ \E r \in Cur : weather_returns(h, r)
  \/ \E r \in Fore : forecast_returns(h, r)
  \/ \E r \in Rend : render_returns(h, r)

Init ==
  /\ api_key \in {"", "KEY"}
  /\ default_city = "Beijing"
  /\ task = [h \in Handlers |-> IdleTask]

Next == \E h \in Handlers : Step(h, FewArgs, FewGeo, FewCurrent, FewForecast, FewRender)

Spec == Init /\ [][Next]_vars

(***************************************************************************)
(* SpecSolo: one command at a time, against every modelled upstream        *)
(* outcome and configuration.                                              *)
(***************************************************************************)
InitSolo ==
  /\ api_key \in {"", "KEY"}
  /\ default_city \in {"Beijing", "Hangzhou"}
  /\ task = [h \in Handlers |-> IdleTask]

NextSolo ==
  Step(1, CityArgs, GeoResponses, CurrentResponses, ForecastResponses, RenderOutcomes)

SpecSolo == InitSolo /\ [][NextSolo]_vars

(***************************************************************************)
(* Vocabulary of the properties.                                           *)
(***************************************************************************)
LookupCmds == CurrentCmds \cup ForecastCmds

Started(h) == task[h].pc # "idle"

\* the calls of handler h to endpoint ep
CallsTo(h, ep) == {i \in 1..Len(task[h].calls) : task[h].calls[i].ep = ep}

\* the i-th response handler h received is a transport or status failure
Failed(r) == r.k = "exc" \/ r.status # 200

Has(o, k) == o.t = "obj" /\ k \in DOMAIN o.v

\* the city a command is about, from its argument and the configuration
TargetCity(h) ==
  IF task[h].arg \in {None, JStr("")} THEN default_city ELSE task[h].arg.v

\* the failure reply of each entry point for a city
FailureReply(cmd, city) ==
  plain_result(
    IF cmd = "current" THEN "Query [" \o city \o "] current weather failed, try again later."
    ELSE IF cmd = "forecast" THEN "Query [" \o city \o "] forecast weather failed, try again later."
    ELSE "Query [" \o city \o "] weather failed, try again later.")

(***************************************************************************)
(* C1 (as stated): with an empty credential every lookup entry point       *)
(* replies with the one configuration-error message, the one the current   *)
(* command uses, and issues no outbound call.                              *)
(***************************************************************************)
C1_OneFixedMessage ==
  \A h \in Handlers :
    (api_key = "" /\ Started(h) /\ task[h].cmd \in LookupCmds)
      => /\ task[h].pc = "done"
         /\ task[h].replies = <<plain_result(MSG_NO_KEY_COMMAND)>>
         /\ task[h].calls = <<>>

(***************************************************************************)
(* C1 (amended): with an empty credential the chat commands current and    *)
(* forecast reply with one fixed configuration-error message and the two   *)
(* LLM tools with another fixed one, for every city argument; the reply is *)
(* the only one, it is plain text, and no outbound call is issued.         *)
(***************************************************************************)
C1_ConfigError ==
  \A h \in Handlers :
    (api_key = "" /\ Started(h) /\ task[h].cmd \in LookupCmds)
      => /\ task[h].pc = "done"
         /\ task[h].replies =
              <<[kind |-> "plain",
                 text |-> IF task[h].cmd \in {"current", "forecast"}
                          THEN MSG_NO_KEY_COMMAND ELSE MSG_NO_KEY_TOOL]>>
         /\ task[h].calls = <<>>
         /\ task[h].resps = <<>>
         /\ task[h].pending = {}

C1_Witness ==
  \E h \in Handlers :
    /\ api_key = "" /\ task[h].pc = "done"
    /\ task[h].cmd = "tool_forecast" /\ task[h].arg = None

(***************************************************************************)
(* Bodies a fetch operation cannot use: not JSON, or a container of the    *)
(* wrong type where the extraction path goes through.                      *)
(***************************************************************************)
IsObj(x) == x.t = "obj"

GeoMalformed(b) ==
  \/ b = BadJson
  \/ b.t # "list"
  \/ Len(b.v) > 0 /\ ~(Has(b.v[1], "lat") /\ Has(b.v[1], "lon"))

\* the value under key k is there and is not an object
NotObjAt(o, k) == Has(o, k) /\ ~IsObj(o.v[k])

\* the value under "weather" is there and is not a list, or its first
\* element is not an object
BadWeatherAt(o) ==
  /\ Has(o, "weather")
  /\ \/ o.v["weather"].t # "list"
     \/ Len(o.v["weather"].v) > 0 /\ ~IsObj(o.v["weather"].v[1])

CurrentMalformed(b) ==
  \/ b = BadJson
  \/ ~IsObj(b)
  \/ NotObjAt(b, "main") \/ NotObjAt(b, "wind") \/ BadWeatherAt(b)

DayMalformed(d) ==
  \/ ~IsObj(d)
  \/ Has(d, "dt") /\ d.v["dt"].t # "num"
  \/ NotObjAt(d, "temp") \/ BadWeatherAt(d)

ForecastMalformed(b) ==
  \/ b = BadJson
  \/ ~IsObj(b)
  \/ Has(b, "list") /\ b.v["list"].t # "list"
  \/ /\ Has(b, "list") /\ b.v["list"].t = "list"
     /\ \E i \in 2..Len(b.v["list"].v) : DayMalformed(b.v["list"].v[i])

\* handler h stopped on its i-th response: it holds no data, has replied
\* with its failure message and no exception left it
StoppedAt(h, i) ==
  /\ Len(task[h].resps) = i
  /\ task[h].pc = "done"
  /\ task[h].data = None
  /\ task[h].pending = {}
  /\ task[h].replies = <<FailureReply(task[h].cmd, task[h].city)>>

(***************************************************************************)
(* C2: a fetch operation whose upstream call ends in a non-200 status, a   *)
(* timeout, a network exception or a malformed body returns None to the    *)
(* handler, and no exception leaves it: the handler holds no data and      *)
(* ends with its failure reply.                                            *)
(***************************************************************************)
C2_FetchFailureIsNone ==
  \A h \in Handlers :
    /\ (Len(task[h].resps) >= 1
          /\ (Failed(task[h].resps[1]) \/ GeoMalformed(task[h].resps[1].body)))
         => (StoppedAt(h, 1) /\ task[h].coords = None)
    /\ (Len(task[h].resps) >= 2 /\ task[h].cmd \in CurrentCmds
          /\ (Failed(task[h].resps[2]) \/ CurrentMalformed(task[h].resps[2].body)))
         => StoppedAt(h, 2)
    /\ (Len(task[h].resps) >= 2 /\ task[h].cmd \in ForecastCmds
          /\ (Failed(task[h].resps[2]) \/ ForecastMalformed(task[h].resps[2].body)))
         => StoppedAt(h, 2)

C2_Witness ==
  \E h \in Handlers :
    /\ task[h].cmd = "forecast" /\ Len(task[h].resps) = 2
    /\ ~Failed(task[h].resps[2])
    /\ task[h].resps[2].body = JObj("list" :> JList(<<Day("full", 1), Day("baddt", 2)>>))
    /\ task[h].pc = "done"

(***************************************************************************)
(* C3 (as stated): on an HTTP 200 forecast response carrying a list of at  *)
(* least cnt well-formed entries, get_forecast_weather_by_city returns     *)
(* exactly cnt - 1 days, that is 3 with the cnt = 4 the code sends,        *)
(* whatever the number of entries upstream.                                *)
(***************************************************************************)
WellFormedDays(b) ==
  /\ Has(b, "list") /\ b.v["list"].t = "list"
  /\ \A i \in 1..Len(b.v["list"].v) : b.v["list"].v[i] = Day("full", i)

C3_ExactlyCntMinusOne ==
  \A h \in Handlers :
    (/\ task[h].cmd \in ForecastCmds /\ Len(task[h].resps) >= 2
     /\ ~Failed(task[h].resps[2])
     /\ WellFormedDays(task[h].resps[2].body)
     /\ Len(task[h].resps[2].body.v["list"].v) >= CNT)
      => /\ task[h].data.t = "list"
         /\ Len(task[h].data.v) = CNT - 1

(***************************************************************************)
(* C4: a weather or forecast request is issued only as the second call of  *)
(* a command, after its geocoding call returned a coordinate pair, and it  *)
(* carries that pair; when geocoding returns not-found (empty result, non- *)
(* 200 or exception) the command issues no further call and ends with its  *)
(* plain-text failure reply.                                               *)
(***************************************************************************)
\* the first place of a geocoding answer
FirstPlace(r) == r.body.v[1]

GeoFound(r) ==
  /\ ~Failed(r) /\ r.body.t = "list" /\ Len(r.body.v) > 0
  /\ Has(FirstPlace(r), "lat") /\ Has(FirstPlace(r), "lon")

GeoNotFound(r) == Failed(r) \/ r.body = JList(<<>>)

C4_GeocodingFirst ==
  \A h \in Handlers :
    /\ \A i \in 1..Len(task[h].calls) :
         task[h].calls[i].ep \in {"weather", "forecast"}
           => /\ i = 2
              /\ task[h].calls[1].ep = "geo"
              /\ Len(task[h].resps) >= 1
              /\ GeoFound(task[h].resps[1])
              /\ task[h].calls[i].lat = FirstPlace(task[h].resps[1]).v["lat"]
              /\ task[h].calls[i].lon = FirstPlace(task[h].resps[1]).v["lon"]
    /\ \A i \in 1..Len(task[h].calls) :
         task[h].calls[i].ep = "render" => i = 3 /\ GeoFound(task[h].resps[1])
    /\ (Len(task[h].resps) >= 1 /\ GeoNotFound(task[h].resps[1]))
         => /\ Len(task[h].calls) = 1
            /\ StoppedAt(h, 1)
            /\ task[h].replies[1].kind = "plain"

C4_Witness ==
  \E h \in Handlers :
    /\ Len(task[h].calls) = 3
    /\ task[h].calls[2] = ForecastCall([lat |-> JNum(48), lon |-> JNum(2)])
    /\ task[h].pc = "done"

(***************************************************************************)
(* C5 (as stated): on an HTTP 200 current-weather response whose main,     *)
(* weather and wind members are each absent or of the expected type (the   *)
(* weather list possibly empty, its first element possibly without a       *)
(* description), get_current_weather_by_city returns a record: the         *)
(* description is the upstream one or else the placeholder, a missing      *)
(* field has its fallback value, a present field is passed through, and    *)
(* the city is the requested one.                                          *)
(***************************************************************************)
\* member k of member part of the body, or the fallback d
Field(b, part, k, d) ==
  IF Has(b, part) /\ Has(b.v[part], k) THEN b.v[part].v[k] ELSE d

UpstreamDescription(b) ==
  IF Has(b, "weather") /\ Len(b.v["weather"].v) > 0
       /\ Has(b.v["weather"].v[1], "description")
  THEN b.v["weather"].v[1].v["description"]
  ELSE JStr(DESC_PLACEHOLDER)

C5_RecordOnEvery200 ==
  \A h \in Handlers :
    (/\ task[h].cmd \in CurrentCmds /\ Len(task[h].resps) >= 2
     /\ ~Failed(task[h].resps[2])
     /\ ~CurrentMalformed(task[h].resps[2].body))
      => task[h].data =
           [t |-> "dict", city |-> TargetCity(h),
            desc |-> UpstreamDescription(task[h].resps[2].body),
            temp |-> Field(task[h].resps[2].body, "main", "temp", None),
            feels_like |-> Field(task[h].resps[2].body, "main", "feels_like", None),
            humidity |-> Field(task[h].resps[2].body, "main", "humidity", None),
            wind_speed |-> Field(task[h].resps[2].body, "wind", "speed", JNum(0))]

(***************************************************************************)
(* C6 (as stated): whatever its outbound calls return, a handler lets no   *)
(* exception escape, and when it has terminated it has emitted exactly one *)
(* reply.                                                                  *)
(***************************************************************************)
C6_FailureContained ==
  \A h \in Handlers :
    /\ task[h].pc # "raised"
    /\ task[h].pc = "done" => Len(task[h].replies) = 1
    /\ task[h].pc # "done" => task[h].replies = <<>>

(***************************************************************************)
(* C7: the alerts command replies with the fixed unsupported-feature       *)
(* plain-text message for every city argument and every credential; it     *)
(* issues no outbound call and emits no image.                             *)
(***************************************************************************)
C7_AlertsUnsupported ==
  \A h \in Handlers :
    task[h].cmd = "alerts"
      => /\ task[h].pc = "done"
         /\ task[h].replies = <<[kind |-> "plain", text |-> MSG_ALERTS_UNSUPPORTED]>>
         /\ task[h].calls = <<>>
         /\ task[h].resps = <<>>
         /\ task[h].pending = {}

C7_Witness ==
  \E h \in Handlers :
    /\ task[h].cmd = "alerts" /\ task[h].pc = "done"
    /\ task[h].arg = JStr("") /\ api_key = ""

(***************************************************************************)
(* C8: with a credential configured, the city of a lookup command is its   *)
(* argument, or the configured default when the argument is missing or     *)
(* empty; that city is the one sent to geocoding; when the fetch returns   *)
(* no data the reply is the plain-text failure message naming that city;   *)
(* when the fetch returns data the renderer is called, and the reply is    *)
(* the image reply carrying the URL the render call returned.              *)
(***************************************************************************)
C8_CityAndReply ==
  \A h \in Handlers :
    (api_key # "" /\ Started(h) /\ task[h].cmd \in LookupCmds)
      => /\ task[h].city = TargetCity(h)
         /\ task[h].calls[1].ep = "geo"
         /\ task[h].calls[1].q = TargetCity(h)
         /\ (task[h].pc = "done" /\ task[h].data = None)
              => task[h].replies = <<FailureReply(task[h].cmd, TargetCity(h))>>
         /\ task[h].data # None
              => /\ Len(task[h].calls) = 3
                 /\ task[h].calls[3].ep = "render"
                 /\ task[h].calls[3].data.city = TargetCity(h)
         /\ (Len(task[h].resps) = 3 /\ task[h].resps[3].k = "url")
              => /\ task[h].pc = "done"
                 /\ task[h].replies = <<[kind |-> "image", url |-> task[h].resps[3].url]>>
         /\ (task[h].pc = "done" /\ task[h].data # None)
              => /\ Len(task[h].resps) = 3
                 /\ task[h].replies[1].kind = "image"

C8_Witness ==
  \E h \in Handlers :
    /\ api_key # "" /\ task[h].cmd = "tool_forecast" /\ task[h].arg = JStr("")
    /\ default_city = "Hangzhou" /\ task[h].pc = "done"
    /\ task[h].replies = <<[kind |-> "image", url |-> "https://img/2.png"]>>

(***************************************************************************)
(* C9: no outbound call is retried and nothing is cached.  A command       *)
(* requests the geocoding endpoint at most once, the weather or forecast   *)
(* endpoint at most once and the renderer at most once, whatever the calls *)
(* return; and every command past its credential check has issued its own  *)
(* geocoding request, every command whose geocoding succeeded its own      *)
(* weather or forecast request, whatever other commands did before it for  *)
(* the same city.                                                          *)
(***************************************************************************)
C9_NoRetryNoCache ==
  \A h \in Handlers :
    /\ Cardinality(CallsTo(h, "geo")) <= 1
    /\ Cardinality(CallsTo(h, "weather") \cup CallsTo(h, "forecast")) <= 1
    /\ Cardinality(CallsTo(h, "render")) <= 1
    /\ Len(task[h].calls) <= 3
    /\ (api_key # "" /\ Started(h) /\ task[h].cmd \in LookupCmds)
         => /\ Cardinality(CallsTo(h, "geo")) = 1
            /\ task[h].calls[1].q = task[h].city
    /\ (Len(task[h].resps) >= 1 /\ GeoFound(task[h].resps[1]))
         => Cardinality(CallsTo(h, "weather") \cup CallsTo(h, "forecast")) = 1

\* two commands for the same city, one after the other has ended
C9_Witness ==
  \E g, h \in Handlers :
    /\ g # h
    /\ task[g].cmd = "current" /\ task[h].cmd = "current"
    /\ task[g].city = task[h].city
    /\ task[g].pc = "done" /\ Len(task[g].resps) = 3
    /\ task[h].pc = "weather"
    /\ Len(task[g].calls) = 3 /\ Len(task[h].calls) = 2

(***************************************************************************)
(* C10: the outbound calls of one command are strictly sequential, in      *)
(* every interleaving with the other commands: at most one is in flight,   *)
(* a call is issued only when every earlier call of the command has        *)
(* returned, and the order is geocoding, weather or forecast, render.      *)
(***************************************************************************)
CallOrder(h) ==
  <<{"geo"},
    IF task[h].cmd \in CurrentCmds THEN {"weather"} ELSE {"forecast"},
    {"render"}>>

C10_Sequential ==
  \A h \in Handlers :
    /\ Cardinality(task[h].pending) <= 1
    /\ Len(task[h].calls) = Len(task[h].resps) + Cardinality(task[h].pending)
    /\ Len(task[h].calls) <= 3
    /\ \A i \in 1..Len(task[h].calls) : task[h].calls[i].ep \in CallOrder(h)[i]
    /\ task[h].pending # {}
         => task[h].pending = {task[h].calls[Len(task[h].calls)].ep}
    /\ task[h].pending # {} <=> task[h].pc \in {"geo", "weather", "render"}

\* two commands in flight at once, at different stages
C10_Witness ==
  \E g, h \in Handlers :
    /\ task[g].pending = {"render"}
    /\ task[h].pending = {"forecast"}

(***************************************************************************)
(* The replies of a command that runs alone: a function of its entry       *)
(* point, its argument, the configuration and the responses to its own     *)
(* calls, in the order it received them.                                   *)
(***************************************************************************)
AloneRendered(resps) ==
  IF Len(resps) >= 3 /\ resps[3].k = "url"
  THEN <<[kind |-> "image", url |-> resps[3].url]>>
  ELSE <<>>

AloneFetched(cmd, city, data, resps) ==
  IF data = None THEN <<FailureReply(cmd, city)>> ELSE AloneRendered(resps)

AloneLocated(cmd, city, coords, resps) ==
  IF coords = None THEN <<FailureReply(cmd, city)>>
  ELSE IF Len(resps) < 2 THEN <<>>
  ELSE AloneFetched(cmd, city,
                    IF cmd \in CurrentCmds
                    THEN get_current_weather_response(city, resps[2])
                    ELSE get_forecast_weather_response(resps[2]),
                    resps)

AloneLookup(cmd, city, resps) ==
  IF api_key = ""
  THEN <<[kind |-> "plain",
          text |-> IF cmd \in {"current", "forecast"}
                   THEN MSG_NO_KEY_COMMAND ELSE MSG_NO_KEY_TOOL]>>
  ELSE IF resps = <<>> THEN <<>>
  ELSE AloneLocated(cmd, city, get_city_coords(resps[1]), resps)

AloneReplies(cmd, arg, resps) ==
  CASE cmd = "alerts" -> <<[kind |-> "plain", text |-> MSG_ALERTS_UNSUPPORTED]>>
    [] cmd = "help" -> <<[kind |-> "plain", text |-> MSG_HELP]>>
    [] cmd \in LookupCmds ->
         AloneLookup(cmd, IF arg \in {None, JStr("")} THEN default_city ELSE arg.v, resps)
    [] OTHER -> <<>>

(***************************************************************************)
(* C11: commands running concurrently do not interfere.  No step of any    *)
(* handler, fetch or render operation changes the API credential or the    *)
(* default city set at construction; and in every interleaving the replies *)
(* of each command are those it produces running alone with the same       *)
(* argument and the same responses to its own calls.                       *)
(***************************************************************************)
C11_NoInterference ==
  /\ [][api_key' = api_key /\ default_city' = default_city]_vars
  /\ [](\A h \in Handlers :
          task[h].replies = AloneReplies(task[h].cmd, task[h].arg, task[h].resps))

\* a command has ended with its failure reply while another, entered with
\* another city, is still waiting for its renderer
C11_Witness ==
  \E g, h \in Handlers :
    /\ task[g].pc = "render" /\ task[g].arg = None
    /\ task[h].pc = "done" /\ task[h].arg = JStr("Shanghai")
    /\ Len(task[h].resps) = 2
    /\ task[h].replies = <<FailureReply(task[h].cmd, "Shanghai")>>

(***************************************************************************)
(* C12: get_forecast_weather_by_city never returns an empty sequence.  On  *)
(* an HTTP 200 body with no list, an empty list or a list of one entry it  *)
(* returns None; on a list of two or more well-formed entries it returns   *)
(* one record per entry after the first, in upstream order.  So whenever   *)
(* a forecast command emits an image reply, the record handed to the       *)
(* renderer has total_days equal to its number of day records, at least 1. *)
(***************************************************************************)
\* the upstream daily list of a 200 body, or Absent
UpstreamList(b) == IF Has(b, "list") THEN b.v["list"] ELSE Absent

TooFewDays(b) ==
  /\ IsObj(b)
  /\ \/ UpstreamList(b) = Absent
     \/ UpstreamList(b).t = "list" /\ Len(UpstreamList(b).v) < 2

\* member k of a daily entry, or the fallback d
DayField(d, k, fallback) == IF Has(d, k) THEN d.v[k] ELSE fallback

\* the record a well-formed daily entry stands for, but for its date
SameDay(rec, d) ==
  /\ rec.desc = UpstreamDescription(d)
  /\ rec.temp_day = Field(d, "temp", "day", None)
  /\ rec.temp_night = Field(d, "temp", "night", None)
  /\ rec.temp_min = Field(d, "temp", "min", None)
  /\ rec.temp_max = Field(d, "temp", "max", None)
  /\ rec.humidity = DayField(d, "humidity", None)
  /\ rec.wind_speed = DayField(d, "speed", JNum(0))

\* the date of the entry at position i of the modelled lists: the days
\* from Sunday 2026-11-01 on, or the epoch when the entry has no dt
SameDate(rec, d, i) ==
  IF Has(d, "dt")
  THEN /\ d.v["dt"] = JNum(DayDt(i))
       /\ rec.date_str = "2026-11-0" \o Digit(i)
       /\ rec.weekday_str = WEEKDAYS[((i + 5) % 7) + 1]
  ELSE rec.date_str = "1970-01-01" /\ rec.weekday_str = "Thu"

C12_ForecastNeverEmpty ==
  \A h \in Handlers :
    (task[h].cmd \in ForecastCmds /\ Len(task[h].resps) >= 2)
      => /\ task[h].data.t = "list" => Len(task[h].data.v) >= 1
         /\ (~Failed(task[h].resps[2]) /\ TooFewDays(task[h].resps[2].body))
              => StoppedAt(h, 2)
         /\ (/\ ~Failed(task[h].resps[2])
             /\ ~ForecastMalformed(task[h].resps[2].body)
             /\ ~TooFewDays(task[h].resps[2].body))
              => /\ task[h].data.t = "list"
                 /\ Len(task[h].data.v) = Len(UpstreamList(task[h].resps[2].body).v) - 1
                 /\ \A i \in 1..Len(task[h].data.v) :
                      /\ SameDay(task[h].data.v[i],
                                 UpstreamList(task[h].resps[2].body).v[i + 1])
                      /\ SameDate(task[h].data.v[i],
                                  UpstreamList(task[h].resps[2].body).v[i + 1], i + 1)
         /\ (task[h].replies # <<>> /\ task[h].replies[1].kind = "image")
              => /\ task[h].calls[3].tmpl = "FORECAST_TEMPLATE"
                 /\ task[h].calls[3].data.days = task[h].data.v
                 /\ task[h].calls[3].data.total_days = Len(task[h].calls[3].data.days)
                 /\ task[h].calls[3].data.total_days >= 1

====
